---- MODULE Spec2Model ----
(***************************************************************************)
(* realtps_import: the perpetual job loop of `run`, `Importer::do_job`,    *)
(* the backward block walk of `Importer::import`, `Importer::calculate`    *)
(* and the delay helpers of src/realtps_import/src/main.rs.                *)
(*                                                                         *)
(* Every future pushed into the FuturesUnordered of `run` is a record      *)
(* holding the job, the await point it is suspended at (pc) and the locals *)
(* of `import`.  One action is one step from an await point to the next.   *)
(* The chain clients and the block store are the environment: the remote   *)
(* chain of a node may advance, shrink or reorganize at any moment, a      *)
(* node may be unresponsive, and every client or store call may fail.      *)
(***************************************************************************)
EXTENDS Integers, Sequences, FiniteSets, Bags, TLC

(***************************************************************************)
(* Bounds of the environment.                                              *)
(***************************************************************************)
\* highest block number a remote chain grows to, and highest head the store
\* and the remote chain of SpecImport start with
MaxHead == 2
\* number of environment events in a behaviour: changes of a remote chain and
\* failed client / store calls together
MaxFaults == 2

(***************************************************************************)
(* Program constants.                                                      *)
(***************************************************************************)
INITIAL_SYNC_BLOCKS == 100
COURTESY_DELAY_MS == 100
RETRY_DELAY_MS == 100
JOB_ERROR_DELAY_MS == 1000
ETHEREUM_RESCAN_SECS == 60
POLYGON_RESCAN_SECS == 10
AVALANCHE_RESCAN_SECS == 10
\* Uniform::from(0..100): the jitter samples the model draws
JITTER_MIN == 0
JITTER_MAX == 99
Jitter == {JITTER_MIN, JITTER_MAX}

Command == {"Run", "Import", "Calculate"}

all_chains == <<"Ethereum", "Polygon", "Avalanche">>

Chains == {all_chains[i] : i \in DOMAIN all_chains}

\* Option<T>
None == <<>>
Some(x) == <<x>>

\* enum Job
JobImport(chain) == <<"Import", chain>>
JobCalculate == <<"Calculate">>

(***************************************************************************)
(* Remote chains.  A block hash is <<number, fork>>: fork 0 is the trunk,  *)
(* fork d >= 1 is the branch that left the trunk at height d.  A hash      *)
(* determines its whole ancestry, as a collision-free hash does.           *)
(***************************************************************************)
ForkAt(fork, n) == IF fork # 0 /\ n >= fork THEN fork ELSE 0

HashOf(fork, n) == <<n, ForkAt(fork, n)>>

\* what the node of a chain holding [head, fork] answers for block n
EthersBlock(r, n) ==
    IF n > r.head THEN None
    ELSE Some([number |-> n, hash |-> HashOf(r.fork, n),
               parent_hash |-> HashOf(r.fork, n - 1)])

\* the chains a node may hold: heads 0..maxHead, on the trunk or on a branch
RemoteStates(maxHead) ==
    {r \in [head : 0..maxHead, fork : 0..maxHead] : r.fork <= r.head}

\* one change of a remote chain: a new block, a rollback of the head block, or
\* a reorganization that replaces the blocks from some height on
RemoteNext(r) ==
    {n \in RemoteStates(IF r.head > MaxHead THEN r.head ELSE MaxHead) :
        /\ n # r
        /\ \/ n.head = r.head + 1 /\ n.fork \in {r.fork, IF r.fork = 0 THEN n.head ELSE r.fork}
           \/ n.head = r.head - 1 /\ n.fork = (IF r.fork > n.head THEN 0 ELSE r.fork)
           \/ n.head = r.head}

VARIABLES
    cmd,        \* Some(Opts.cmd after unwrap_or(Command::Run)); None once
                \* run has moved it into init_jobs
    proc,       \* "starting" | "running" | "exited" | "panicked"
    jobs,       \* the FuturesUnordered of run: a bag of futures
    db,         \* the block store: [chain -> [blocks, highest]]
    remote,     \* [chain -> [head, fork]]: what the node of each chain holds
    up,         \* chains whose node answers requests
    version,    \* [chain -> number of changes of the remote chain so far]
    failures    \* [chain -> number of failed client / store calls so far]

vars == <<cmd, proc, jobs, db, remote, up, version, failures>>

\* environment events so far, over the chains of all_chains
Faults ==
    LET events(chain) == failures[chain] + version[chain]
    IN  events(all_chains[1]) + events(all_chains[2]) + events(all_chains[3])

(***************************************************************************)
(* The block store (trait Db): store_block is an upsert keyed by           *)
(* (chain, block_number).  tps is the latest TPS value of the chain; no    *)
(* code of the service calls store_tps.                                    *)
(***************************************************************************)
EmptyDb == [blocks |-> <<>>, highest |-> None, tps |-> None]

load_highest_block_number(d, chain) == d[chain].highest

store_highest_block_number(d, chain, n) == [d EXCEPT ![chain].highest = Some(n)]

load_block(d, chain, n) ==
    IF n \in DOMAIN d[chain].blocks THEN Some(d[chain].blocks[n]) ELSE None

\* seeded fault: storing a block moves the head pointer to it
store_block_MovesHead(d, block) ==
    [d EXCEPT ![block.chain].blocks = (block.block_number :> block) @@ @,
              ![block.chain].highest = Some(block.block_number)]

store_block(d, block) ==
    [d EXCEPT ![block.chain].blocks = (block.block_number :> block) @@ @]

\* fn ethers_block_to_block
ethers_block_to_block(chain, block) ==
    [chain |-> chain, block_number |-> block.number,
     hash |-> block.hash, parent_hash |-> block.parent_hash]

(***************************************************************************)
(* Futures.  importer.do_job(job) builds a future that has not run yet.    *)
(* obs is history kept for the properties only: db0, the store of the      *)
(* job's chain when the job began; remote0 and version0, the remote chain  *)
(* and its version when the remote head was read; stored, the block        *)
(* numbers stored so far, in order.                                        *)
(***************************************************************************)
Genesis == [head |-> 0, fork |-> 0]

do_job(job) ==
    [job |-> job, pc |-> "begin",
     head_block_number |-> 0, highest_block_number |-> None,
     initial_sync |-> FALSE, synced |-> 0, block_number |-> 0,
     block |-> None, sleep |-> 0, delayed |-> "none",
     r |-> "pending", new_jobs |-> <<>>, tasks |-> <<>>,
     obs |-> [db0 |-> IF job[1] = "Import" THEN db[job[2]] ELSE EmptyDb,
              remote0 |-> Genesis, version0 |-> 0, stored |-> <<>>]]

IsImport(f) == f.job[1] = "Import"

ChainOf(f) == f.job[2]

Futures == BagToSet(jobs)

\* the future f of the collection moves on to g
Step(f, g) == jobs' = (jobs (-) SetToBag({f})) (+) SetToBag({g})

\* fn init_jobs
init_jobs(c) ==
    CASE c \in {"Run", "Import"} ->
            [i \in DOMAIN all_chains |-> JobImport(all_chains[i])]
      [] c = "Calculate" -> <<JobCalculate>>

RECURSIVE PushAll(_, _)
\* for job in js { jobs.push(importer.do_job(job)) }
PushAll(bag, js) ==
    IF js = <<>> THEN bag
    ELSE PushAll(bag (+) SetToBag({do_job(Head(js))}), Tail(js))

(***************************************************************************)
(* Delay policy.                                                           *)
(***************************************************************************)
\* async fn delay, awaited: the future sleeps base_ms + jitter
delay(f, name, base_ms, jitter) ==
    [f EXCEPT !.pc = name, !.sleep = base_ms + jitter]

courtesy_delay(f, jitter) == delay(f, "courtesy_delay", COURTESY_DELAY_MS, jitter)

\* seeded fault: after the retry delay the walk moves on to the predecessor
retry_delay_MovesOn(f, jitter) ==
    delay([f EXCEPT !.block_number = @ - 1], "retry_delay", RETRY_DELAY_MS, jitter)

retry_delay(f, jitter) == delay(f, "retry_delay", RETRY_DELAY_MS, jitter)

rescan_secs(chain) ==
    CASE chain = "Ethereum" -> ETHEREUM_RESCAN_SECS
      [] chain = "Polygon" -> POLYGON_RESCAN_SECS
      [] chain = "Avalanche" -> AVALANCHE_RESCAN_SECS

rescan_delay(f, jitter) ==
    delay(f, "rescan_delay", 1000 * rescan_secs(ChainOf(f)), jitter)

\* async fn job_error_delay: `delay(msecs);` builds the delay future and drops
\* it without awaiting it, so nothing sleeps
job_error_delay(f, jitter) ==
    LET dropped == delay(f, "job_error_delay", JOB_ERROR_DELAY_MS, jitter)
    IN  [f EXCEPT !.pc = f.pc]

Delays == {"courtesy_delay", "retry_delay", "rescan_delay", "job_error_delay"}

(***************************************************************************)
(* run: lines 60-64, the initial jobs are pushed.                          *)
(***************************************************************************)
Start ==
    /\ proc = "starting"
    /\ jobs' = PushAll(jobs, init_jobs(cmd[1]))
    /\ cmd' = None
    /\ proc' = "running"
    /\ UNCHANGED <<db, remote, up, version, failures>>

(***************************************************************************)
(* Importer::import, one action per await point.                           *)
(***************************************************************************)
\* provider.get_block_number().await
GetBlockNumber(f) ==
    /\ proc = "running" /\ IsImport(f) /\ f.pc = "begin"
    /\ ChainOf(f) \in up
    /\ Step(f, [f EXCEPT !.pc = "load_highest",
                         !.head_block_number = remote[ChainOf(f)].head,
                         !.obs.remote0 = remote[ChainOf(f)],
                         !.obs.version0 = version[ChainOf(f)]])
    /\ UNCHANGED <<cmd, proc, db, remote, up, version, failures>>

\* the locals the walk starts with (lines 194-198)
BeginWalk(f, highest_block_number) ==
    [f EXCEPT !.pc = "get_block",
              !.highest_block_number = highest_block_number,
              !.initial_sync = (highest_block_number = None),
              !.synced = 0,
              !.block_number = f.head_block_number]

\* seeded fault: the walk is done whatever the head pointer is
NeedsImport_Always(head_block_number, highest_block_number) == TRUE

\* line 193: the remote head is not the head pointer
NeedsImport(head_block_number, highest_block_number) ==
    Some(head_block_number) # highest_block_number

\* self.db.load_highest_block_number(chain) and the comparison of line 193
LoadHighest(f) ==
    /\ proc = "running" /\ IsImport(f) /\ f.pc = "load_highest"
    /\ LET highest_block_number == load_highest_block_number(db, ChainOf(f)) IN
         IF NeedsImport(f.head_block_number, highest_block_number)
         THEN Step(f, BeginWalk(f, highest_block_number))
         ELSE \E jitter \in Jitter :
                Step(f, rescan_delay(
                          [f EXCEPT !.highest_block_number = highest_block_number],
                          jitter))
    /\ UNCHANGED <<cmd, proc, db, remote, up, version, failures>>

\* provider.get_block(block_number).await: the block, or no block yet
GetBlock(f) ==
    /\ proc = "running" /\ IsImport(f) /\ f.pc = "get_block"
    /\ ChainOf(f) \in up
    /\ \E block \in {EthersBlock(remote[ChainOf(f)], f.block_number), None} :
         IF block # None
         THEN Step(f, [f EXCEPT !.pc = "store_block",
                        !.block = Some(ethers_block_to_block(ChainOf(f), block[1]))])
         ELSE \E jitter \in Jitter : Step(f, retry_delay(f, jitter))
    /\ UNCHANGED <<cmd, proc, db, remote, up, version, failures>>

\* seeded fault: the walk steps back by two
checked_sub_Two(n, k) == IF n - k - 1 >= 0 THEN Some(n - k - 1) ELSE None

\* u64::checked_sub (line 233)
checked_sub(n, k) == IF n - k >= 0 THEN Some(n - k) ELSE None

\* seeded fault: the initial-sync cap is not applied
AfterStore_NoCap(f) ==
    LET g == [f EXCEPT !.synced = f.synced + 1,
                       !.obs.stored = Append(f.obs.stored, f.block[1].block_number)]
    IN  IF checked_sub(g.block_number, 1) # None
        THEN [g EXCEPT !.pc = "load_block"]
        ELSE [g EXCEPT !.pc = "store_highest"]

\* after store_block: the initial-sync cap and the genesis check (lines 226-233)
AfterStore(f) ==
    LET g == [f EXCEPT !.synced = f.synced + 1,
                       !.obs.stored = Append(f.obs.stored, f.block[1].block_number)]
    IN  IF g.initial_sync /\ g.synced = INITIAL_SYNC_BLOCKS
        THEN [g EXCEPT !.pc = "store_highest"]
        ELSE IF checked_sub(g.block_number, 1) # None
             THEN [g EXCEPT !.pc = "load_block"]
             ELSE [g EXCEPT !.pc = "store_highest"]

\* spawn_blocking(db.store_block(block))
StoreBlock(f) ==
    /\ proc = "running" /\ IsImport(f) /\ f.pc = "store_block"
    /\ db' = store_block(db, f.block[1])
    /\ Step(f, AfterStore(f))
    /\ UNCHANGED <<cmd, proc, remote, up, version, failures>>

\* seeded fault: the hash of the stored predecessor is not compared
WalkDone_AnyStored(prev_block, parent_hash, prev_block_number, highest_block_number) ==
    /\ prev_block # None
    /\ highest_block_number # None
    /\ prev_block_number <= highest_block_number[1]

\* seeded fault: with no head pointer a matching predecessor ends the walk
WalkDone_UnsetStops(prev_block, parent_hash, prev_block_number, highest_block_number) ==
    /\ prev_block # None
    /\ prev_block[1].hash = parent_hash
    /\ highest_block_number # None => prev_block_number <= highest_block_number[1]

\* seeded fault: a matching predecessor above the head pointer ends the walk
WalkDone_AnyMatch(prev_block, parent_hash, prev_block_number, highest_block_number) ==
    /\ prev_block # None
    /\ prev_block[1].hash = parent_hash
    /\ highest_block_number # None

\* lines 239-275: TRUE when the walk is complete at prev_block_number
WalkDone(prev_block, parent_hash, prev_block_number, highest_block_number) ==
    /\ prev_block # None
    /\ prev_block[1].hash = parent_hash
    /\ highest_block_number # None
    /\ prev_block_number <= highest_block_number[1]

\* spawn_blocking(db.load_block(chain, prev_block_number)) and the decision
LoadBlock(f) ==
    /\ proc = "running" /\ IsImport(f) /\ f.pc = "load_block"
    /\ LET prev_block_number == checked_sub(f.block_number, 1)[1]
           parent_hash == f.block[1].parent_hash
           prev_block == load_block(db, ChainOf(f), prev_block_number)
       IN  IF WalkDone(prev_block, parent_hash, prev_block_number,
                       f.highest_block_number)
           THEN Step(f, [f EXCEPT !.pc = "store_highest"])
           ELSE \E jitter \in Jitter :
                  Step(f, courtesy_delay(
                            [f EXCEPT !.block_number = prev_block_number], jitter))
    /\ UNCHANGED <<cmd, proc, db, remote, up, version, failures>>

\* spawn_blocking(db.store_highest_block_number(chain, head_block_number)),
\* then rescan_delay(chain)
\* seeded fault: the head pointer is set to the block the walk ended at
NewHighest_WalkEnd(f) == f.block_number

\* seeded fault: the head pointer is set one past the remote head
NewHighest_Next(f) == f.head_block_number + 1

\* the head pointer a completed pass persists (line 290)
NewHighest(f) == f.head_block_number

StoreHighest(f) ==
    /\ proc = "running" /\ IsImport(f) /\ f.pc = "store_highest"
    /\ db' = store_highest_block_number(db, ChainOf(f), NewHighest(f))
    /\ \E jitter \in Jitter : Step(f, rescan_delay(f, jitter))
    /\ UNCHANGED <<cmd, proc, remote, up, version, failures>>

\* seeded fault: the failed job is dropped
ErrJobs_Dropped(job) == <<>>

\* what do_job returns when the job failed (line 178)
ErrJobs(job) == <<job>>

\* seeded fault: a completed pass returns two follow-up jobs
OkJobs_Twice(chain) == <<JobImport(chain), JobImport(chain)>>

\* what import returns (line 298)
OkJobs(chain) == <<JobImport(chain)>>

Finish(f, r, new_jobs) ==
    [f EXCEPT !.pc = "done", !.sleep = 0, !.r = r, !.new_jobs = new_jobs]

\* a tokio sleep elapses
Wake(f) ==
    /\ proc = "running" /\ f.pc \in Delays
    /\ LET g == [f EXCEPT !.delayed = f.pc, !.sleep = 0] IN
         CASE f.pc \in {"courtesy_delay", "retry_delay"} ->
                Step(f, [g EXCEPT !.pc = "get_block"])
           [] f.pc = "rescan_delay" ->
                Step(f, Finish(g, "Ok", OkJobs(ChainOf(f))))
           [] f.pc = "job_error_delay" ->
                Step(f, Finish(g, "Err", ErrJobs(f.job)))
    /\ UNCHANGED <<cmd, proc, db, remote, up, version, failures>>

IoPoints ==
    {"begin", "load_highest", "get_block", "store_block", "load_block",
     "store_highest"}

\* a client or store call returns Err: `?` leaves import, and do_job takes its
\* Err arm (lines 174-179)
Fail(f) ==
    /\ proc = "running" /\ IsImport(f) /\ f.pc \in IoPoints
    /\ f.pc \in {"begin", "get_block"} => ChainOf(f) \in up
    /\ Faults < MaxFaults
    /\ failures' = [failures EXCEPT ![ChainOf(f)] = @ + 1]
    /\ \E jitter \in {JITTER_MIN} :
         LET g == job_error_delay(f, jitter) IN
           IF g.pc = "job_error_delay"
           THEN Step(f, g)
           ELSE Step(f, Finish(f, "Err", ErrJobs(f.job)))
    /\ UNCHANGED <<cmd, proc, db, remote, up, version>>

(***************************************************************************)
(* Importer::calculate: one task per chain is spawned on the runtime, then *)
(* todo!() panics in the future that run is polling on the main task.  A   *)
(* spawned task runs on a worker thread whenever the runtime gets to it,   *)
(* also while the main task unwinds.                                       *)
(***************************************************************************)
Calculate(f) ==
    /\ proc = "running" /\ ~IsImport(f) /\ f.pc = "begin"
    /\ Step(f, [f EXCEPT !.pc = "todo", !.r = "panicked",
                         !.tasks = [i \in DOMAIN all_chains |-> "spawned"]])
    /\ proc' = "panicked"
    /\ UNCHANGED <<cmd, db, remote, up, version, failures>>

\* async fn calculate_for_chain: todo!() panics in the task before any store
\* call; the outcome of the task and the store it leaves
calculate_for_chain(d, chain) == [r |-> "panicked", db |-> d]

\* a spawned per-chain task is run
CalculateForChain(f) ==
    /\ ~IsImport(f)
    /\ \E i \in DOMAIN f.tasks :
         /\ f.tasks[i] = "spawned"
         /\ LET t == calculate_for_chain(db, all_chains[i]) IN
              /\ Step(f, [f EXCEPT !.tasks[i] = t.r])
              /\ db' = t.db
    /\ UNCHANGED <<cmd, proc, remote, up, version, failures>>

(***************************************************************************)
(* run: the loop of lines 66-76.                                           *)
(***************************************************************************)
RunLoop ==
    /\ proc = "running"
    /\ IF jobs = EmptyBag
       THEN proc' = "exited" /\ UNCHANGED jobs
       ELSE \E f \in Futures :
              /\ f.pc = "done"
              /\ jobs' = PushAll(jobs (-) SetToBag({f}), f.new_jobs)
              /\ UNCHANGED proc
    /\ UNCHANGED <<cmd, db, remote, up, version, failures>>

(***************************************************************************)
(* The environment: the remote chain of a node changes.                    *)
(***************************************************************************)
RemoteChange(chain) ==
    /\ proc = "running" /\ chain \in up
    /\ Faults < MaxFaults
    /\ \E n \in RemoteNext(remote[chain]) : remote' = [remote EXCEPT ![chain] = n]
    /\ version' = [version EXCEPT ![chain] = @ + 1]
    /\ UNCHANGED <<cmd, proc, jobs, db, up, failures>>

Next ==
    \/ Start
    \/ RunLoop
    \/ \E f \in Futures : GetBlockNumber(f)
    \/ \E f \in Futures : LoadHighest(f)
    \/ \E f \in Futures : GetBlock(f)
    \/ \E f \in Futures : StoreBlock(f)
    \/ \E f \in Futures : LoadBlock(f)
    \/ \E f \in Futures : StoreHighest(f)
    \/ \E f \in Futures : Wake(f)
    \/ \E f \in Futures : Fail(f)
    \/ \E f \in Futures : Calculate(f)
    \/ \E f \in Futures : CalculateForChain(f)

(***************************************************************************)
(* Spec: the whole service in every mode, every node answering, the store  *)
(* empty at start, remote chains that do not change.                       *)
(***************************************************************************)
Init ==
    /\ cmd \in {Some(c) : c \in Command}
    /\ proc = "starting"
    /\ jobs = EmptyBag
    /\ db = [chain \in Chains |-> EmptyDb]
    /\ remote = [chain \in Chains |->
                   IF chain = all_chains[1] THEN [head |-> 1, fork |-> 0] ELSE Genesis]
    /\ up = Chains
    /\ version = [chain \in Chains |-> 0]
    /\ failures = [chain \in Chains |-> 0]

Spec == Init /\ [][Next]_vars

(***************************************************************************)
(* SpecImport: one import lane against a remote chain that changes.  The   *)
(* lanes share no state, so the lane of one chain is followed while the    *)
(* nodes of the other chains do not answer.  The store starts empty or     *)
(* with the blocks 0..k of some chain an earlier run imported (the store   *)
(* is persistent), with the head pointer absent or anywhere in 0..k.       *)
(***************************************************************************)
\* block n of the remote chain r as import stores it
RemoteBlock(chain, r, n) == ethers_block_to_block(chain, EthersBlock(r, n)[1])

ImportedDb(chain, r, highest) ==
    [blocks |-> [n \in 0..r.head |-> RemoteBlock(chain, r, n)],
     highest |-> highest, tps |-> None]

InitDbs(chain) ==
    {EmptyDb} \cup
    {ImportedDb(chain, r, highest) :
        r \in RemoteStates(MaxHead),
        highest \in {None} \cup {Some(n) : n \in 0..MaxHead}}

NextImport ==
    \/ Start
    \/ RunLoop
    \/ \E f \in Futures : GetBlockNumber(f)
    \/ \E f \in Futures : LoadHighest(f)
    \/ \E f \in Futures : GetBlock(f)
    \/ \E f \in Futures : StoreBlock(f)
    \/ \E f \in Futures : LoadBlock(f)
    \/ \E f \in Futures : StoreHighest(f)
    \/ \E f \in Futures : Wake(f)
    \/ \E f \in Futures : Fail(f)
    \/ \E chain \in Chains : RemoteChange(chain)

InitImport ==
    /\ cmd = Some("Import")
    /\ proc = "starting"
    /\ jobs = EmptyBag
    /\ \E chain \in {all_chains[1]} :
         /\ up = {chain}
         /\ \E d \in InitDbs(chain) :
              /\ d.highest # None => d.highest[1] \in DOMAIN d.blocks
              /\ db = [c \in Chains |-> IF c = chain THEN d ELSE EmptyDb]
         /\ \E r \in RemoteStates(MaxHead) :
              remote = [c \in Chains |-> IF c = chain THEN r
                                         ELSE Genesis]
    /\ version = [chain \in Chains |-> 0]
    /\ failures = [chain \in Chains |-> 0]

SpecImport == InitImport /\ [][NextImport]_vars

(***************************************************************************)
(* SpecScenario: the end-to-end reorg scenario.  The remote chain holds    *)
(* blocks 0..=5, the store holds blocks 0..=4 of a chain that agrees with  *)
(* the remote one up to block 3 and differs at block 4; the head pointer   *)
(* is absent or anywhere in 0..=4.                                         *)
(***************************************************************************)
ScenarioStart(chain, d, r) ==
    /\ r.head = 5
    /\ DOMAIN d.blocks = 0..4
    /\ d.highest \in {None} \cup {Some(n) : n \in 0..4}
    /\ RemoteBlock(chain, r, 5).parent_hash # d.blocks[4].hash
    /\ RemoteBlock(chain, r, 4).parent_hash = d.blocks[3].hash

InitScenario ==
    /\ cmd = Some("Import")
    /\ proc = "starting"
    /\ jobs = EmptyBag
    /\ up = {all_chains[1]}
    /\ \E r \in RemoteStates(5), l \in RemoteStates(4),
          highest \in {None} \cup {Some(n) : n \in 0..4} :
         /\ ScenarioStart(all_chains[1], ImportedDb(all_chains[1], l, highest), r)
         /\ db = [c \in Chains |-> IF c = all_chains[1]
                                   THEN ImportedDb(all_chains[1], l, highest)
                                   ELSE EmptyDb]
         /\ remote = [c \in Chains |-> IF c = all_chains[1] THEN r ELSE Genesis]
    /\ version = [chain \in Chains |-> 0]
    /\ failures = [chain \in Chains |-> 0]

SpecScenario == InitScenario /\ [][NextImport]_vars

(***************************************************************************)
(* SpecSync: import passes against remote chains about as long as the      *)
(* initial-sync cap: the walk of a first import reaches genesis before the *)
(* cap, at the cap, or not at all.  The store is empty or holds blocks of  *)
(* an earlier run, agreeing with the remote chain or differing from block  *)
(* 1 on, with no head pointer or with head pointer 0.  Every call          *)
(* succeeds and the remote chain does not change.                          *)
(***************************************************************************)
SyncHeads == (INITIAL_SYNC_BLOCKS - MaxHead)..(INITIAL_SYNC_BLOCKS + MaxHead - 1)

NextSync ==
    \/ Start
    \/ RunLoop
    \/ \E f \in Futures : GetBlockNumber(f)
    \/ \E f \in Futures : LoadHighest(f)
    \/ \E f \in Futures : GetBlock(f)
    \/ \E f \in Futures : StoreBlock(f)
    \/ \E f \in Futures : LoadBlock(f)
    \/ \E f \in Futures : StoreHighest(f)
    \/ \E f \in Futures : Wake(f)

InitSync ==
    /\ cmd = Some("Import")
    /\ proc = "starting"
    /\ jobs = EmptyBag
    /\ up = {all_chains[1]}
    /\ \E head \in SyncHeads :
         /\ remote = [c \in Chains |-> IF c = all_chains[1]
                                       THEN [head |-> head, fork |-> 0]
                                       ELSE Genesis]
         /\ \E d \in {EmptyDb} \cup
                      {ImportedDb(all_chains[1], [head |-> head, fork |-> fork], highest) :
                          fork \in {0, 1}, highest \in {None, Some(0)}} :
              db = [c \in Chains |-> IF c = all_chains[1] THEN d ELSE EmptyDb]
    /\ version = [chain \in Chains |-> 0]
    /\ failures = [chain \in Chains |-> 0]

SpecSync == InitSync /\ [][NextSync]_vars

(***************************************************************************)
(* SpecCalculate: calculate-only mode over a persistent store: the store   *)
(* of one chain is empty or holds the blocks an earlier run imported.  No  *)
(* job of this mode ever completes, so the loop of run stays in its await. *)
(***************************************************************************)
NextCalculate ==
    \/ Start
    \/ \E f \in Futures : Calculate(f)
    \/ \E f \in Futures : CalculateForChain(f)

InitCalculate ==
    /\ cmd = Some("Calculate")
    /\ proc = "starting"
    /\ jobs = EmptyBag
    /\ up = Chains
    /\ \E d \in InitDbs(all_chains[1]) :
         /\ d.highest # None => d.highest[1] \in DOMAIN d.blocks
         /\ db = [c \in Chains |-> IF c = all_chains[1] THEN d ELSE EmptyDb]
    /\ remote = [c \in Chains |-> Genesis]
    /\ version = [chain \in Chains |-> 0]
    /\ failures = [chain \in Chains |-> 0]

SpecCalculate == InitCalculate /\ [][NextCalculate]_vars

(***************************************************************************)
(* Properties.                                                             *)
(***************************************************************************)
ImportFutures == {f \in Futures : IsImport(f)}

\* the pass of f has ended without error: it sleeps its rescan delay or has
\* returned Ok
Succeeded(f) == f.pc \in {"rescan_delay", "done"} /\ f.r # "Err"

\* the pass of f has walked (the remote head was not the head pointer)
Walked(f) == Succeeded(f) /\ f.obs.stored # <<>>

\* the pass of f was aborted by a failure
Aborted(f) == f.pc = "done" /\ f.r = "Err"

\* the remote chain has not changed since the pass of f read the remote head
Static(f) == version[ChainOf(f)] = f.obs.version0

Blocks(f) == db[ChainOf(f)].blocks

Range(seq) == {seq[i] : i \in DOMAIN seq}

\* C1: after a successful pass that wrote head pointer H, every two adjacent
\* stored blocks N, N-1, for N from H down to genesis or to the previous head
\* pointer, are linked: block[N].parent_hash = block[N-1].hash, whatever the
\* remote did during the pass.
C1_AdjacentBlocksLinked ==
    \A f \in ImportFutures :
        Walked(f) =>
            \A N \in (IF f.highest_block_number = None THEN 1
                      ELSE f.highest_block_number[1] + 1) .. f.head_block_number :
                (N \in DOMAIN Blocks(f) /\ N - 1 \in DOMAIN Blocks(f)) =>
                    Blocks(f)[N].parent_hash = Blocks(f)[N - 1].hash

\* some block stored when the pass began differs from the remote block of its
\* number
Stale(f) ==
    \E n \in DOMAIN f.obs.db0.blocks :
        /\ n <= f.obs.remote0.head
        /\ f.obs.db0.blocks[n].hash # RemoteBlock(ChainOf(f), f.obs.remote0, n).hash

\* block number b ends the repair: it is genesis, or its predecessor was stored
\* with the hash b's parent_hash names, at or below the old head pointer
RepairEnds(f, b) ==
    \/ b = 0
    \/ /\ b - 1 \in DOMAIN f.obs.db0.blocks
       /\ f.obs.db0.blocks[b - 1].hash = RemoteBlock(ChainOf(f), f.obs.remote0, b).parent_hash
       /\ b - 1 <= f.obs.db0.highest[1]

RepairFrom(f) ==
    CHOOSE b \in 0..f.obs.remote0.head :
        /\ RepairEnds(f, b)
        /\ \A n \in (b + 1)..f.obs.remote0.head : ~RepairEnds(f, n)

ExactRepair(f) ==
    /\ Range(f.obs.stored) = RepairFrom(f)..f.obs.remote0.head
    /\ Len(f.obs.stored) = Cardinality(Range(f.obs.stored))

\* C2: from a store holding a stale block and a head pointer, a successful pass
\* against a remote that does not change overwrites exactly the block numbers
\* from the remote head down to the first block whose stored predecessor
\* matches at or below the old head pointer: none below, none skipped.
C2_MinimalRepair ==
    \A f \in ImportFutures :
        (Succeeded(f) /\ Static(f) /\ f.obs.db0.highest # None /\ Stale(f))
            => ExactRepair(f)

\* C3: remote 0..=5, local 0..=4, remote block 5 does not link to local block 4
\* and remote block 4 links to local block 3: after one successful pass against
\* the unchanged remote, local blocks 4 and 5 are the remote's and the head
\* pointer is 5.
C3_ReorgScenario ==
    \A f \in ImportFutures :
        (Succeeded(f) /\ Static(f) /\ ScenarioStart(ChainOf(f), f.obs.db0, f.obs.remote0))
            => /\ {4, 5} \subseteq DOMAIN Blocks(f)
               /\ Blocks(f)[4] = RemoteBlock(ChainOf(f), f.obs.remote0, 4)
               /\ Blocks(f)[5] = RemoteBlock(ChainOf(f), f.obs.remote0, 5)
               /\ db[ChainOf(f)].highest = Some(5)

C3_Witness ==
    \E f \in ImportFutures :
        /\ f.pc = "done" /\ f.r = "Ok" /\ Static(f)
        /\ ScenarioStart(ChainOf(f), f.obs.db0, f.obs.remote0)
        /\ f.obs.db0.highest = Some(2)

\* C4: a pass that finds the remote head equal to the head pointer stores no
\* block and no head pointer (the store of the chain is as it was when the
\* pass began) and returns exactly one follow-up Import job of its chain.
C4_NoOpPass ==
    \A f \in ImportFutures :
        (Succeeded(f) /\ Some(f.head_block_number) = f.highest_block_number)
            => /\ db[ChainOf(f)] = f.obs.db0
               /\ f.obs.stored = <<>>
               /\ f.pc = "done" => f.new_jobs = <<JobImport(ChainOf(f))>>

C4_Witness ==
    \E f \in ImportFutures :
        /\ f.pc = "done" /\ f.r = "Ok"
        /\ Some(f.head_block_number) = f.highest_block_number
        /\ f.obs.db0.blocks # <<>>

\* C5: a job that failed is handed back: do_job returns exactly that job.
C5_FailedJobResubmitted ==
    \A f \in Futures : Aborted(f) => f.new_jobs = <<f.job>>

\* a job that failed, was handed back and failed again at once (no pass of
\* its chain has succeeded: the head pointer is still absent)
C5_Witness ==
    \E f \in Futures :
        /\ Aborted(f) /\ failures[ChainOf(f)] = 2
        /\ db[ChainOf(f)].highest = None

\* C6: a failed job is handed back to the scheduler only after the job error
\* delay has elapsed.
C6_ErrorDelayElapses ==
    \A f \in Futures : Aborted(f) => f.delayed = "job_error_delay"

\* the initial job set the modes are meant to give
ModeJobs(c) ==
    CASE c = "Run" -> {JobImport(chain) : chain \in Chains} \cup {JobCalculate}
      [] c = "Import" -> {JobImport(chain) : chain \in Chains}
      [] c = "Calculate" -> {JobCalculate}

\* C7: the initial job set is one Import per chain plus one Calculate in
\* run-everything mode, the Imports alone in import-only mode, one Calculate
\* alone in calculate-only mode.
C7_InitialJobSet ==
    [][proc = "starting" /\ proc' = "running"
         => jobs' = SetToBag({do_job(job) : job \in ModeJobs(cmd[1])})]_vars

\* C8: the scheduler's job set never becomes empty and the loop never ends: no
\* job ends the process.
C8_RunsForever ==
    /\ proc \in {"starting", "running"}
    /\ proc = "running" => jobs # EmptyBag

\* C9: the head pointer is written only by the last store of a pass whose walk
\* has ended: until then, and for good when the pass is aborted, it is what it
\* was when the pass began; an aborted pass is handed back to run again from
\* its start.
C9_HeadPointerOnlyAtEnd ==
    \A f \in ImportFutures :
        /\ ~Walked(f) => db[ChainOf(f)].highest = f.obs.db0.highest
        /\ f.pc \in {"get_block", "retry_delay", "store_block", "load_block",
                     "courtesy_delay", "store_highest"}
             => db[ChainOf(f)].highest = f.highest_block_number
        /\ Aborted(f) => f.new_jobs = <<f.job>>

\* a pass aborted after it stored blocks, on a chain with a head pointer
C9_Witness ==
    \E f \in ImportFutures :
        Aborted(f) /\ f.obs.stored # <<>> /\ f.obs.db0.highest # None

\* C10: after a successful pass that walked, the head pointer is the remote
\* head read at the start of the pass, not the remote head of the moment.
C10_HeadPointerIsRemoteHead ==
    \A f \in ImportFutures :
        Walked(f) => db[ChainOf(f)].highest = Some(f.obs.remote0.head)

\* a walk that ended below the old head pointer while the remote head moved
C10_Witness ==
    \E f \in ImportFutures :
        /\ Walked(f)
        /\ remote[ChainOf(f)].head # f.obs.remote0.head
        /\ f.obs.db0.highest # None
        /\ f.obs.remote0.head < f.obs.db0.highest[1]

\* C11: the remote replaces the block at the head pointer's height (and maybe
\* its ancestors) while the remote head number stays equal to the head
\* pointer: after a successful pass against that remote the stored block at
\* that height is the remote's block.
C11_SameHeightReorgRepaired ==
    \A f \in ImportFutures :
        (/\ Succeeded(f) /\ Static(f)
         /\ f.obs.db0.highest = Some(f.obs.remote0.head)
         /\ f.obs.remote0.head \in DOMAIN f.obs.db0.blocks)
            => /\ f.obs.remote0.head \in DOMAIN Blocks(f)
               /\ Blocks(f)[f.obs.remote0.head]
                    = RemoteBlock(ChainOf(f), f.obs.remote0, f.obs.remote0.head)

\* C12: every Calculate job terminates and returns exactly one follow-up
\* Calculate job after the calculations of all chains were attempted: a
\* Calculate job that has run has not ended in a panic, and when it is done it
\* returns <<Calculate>> with every per-chain task attempted.
C12_CalculateReturnsFollowUp ==
    \A f \in Futures :
        (~IsImport(f) /\ f.pc # "begin")
            => /\ f.r # "panicked"
               /\ f.pc = "done"
                    => /\ f.new_jobs = <<JobCalculate>>
                       /\ \A i \in DOMAIN all_chains :
                            i \in DOMAIN f.tasks /\ f.tasks[i] # "spawned"

\* the head pointer of the store d refers to a stored block that has no
\* stored predecessor
SingleBlockChain(d) ==
    /\ d.highest # None
    /\ d.highest[1] \in DOMAIN d.blocks
    /\ d.highest[1] - 1 \notin DOMAIN d.blocks

\* C13: for a single-block chain the per-chain calculation completes without
\* error and persists tps = 0.0 for that chain.
C13_SingleBlockTpsZero ==
    \A f \in Futures : \A i \in DOMAIN f.tasks :
        (f.tasks[i] # "spawned" /\ SingleBlockChain(db[all_chains[i]]))
            => /\ f.tasks[i] = "ok"
               /\ db[all_chains[i]].tps = Some(0)

\* the stored block n of f's chain is present and its hash is the parent_hash
\* of the block f fetched last
PredMatches(f, n) ==
    LET prev_block == load_block(db, ChainOf(f), n)
    IN  prev_block # None /\ prev_block[1].hash = f.block[1].parent_hash

\* the walk of f has just decided to go on to the predecessor f.block_number
WalkContinued(f) == IsImport(f) /\ f.pc = "courtesy_delay"

\* the walk of f has just ended above genesis and not by the initial-sync cap
WalkStopped(f) ==
    /\ IsImport(f) /\ f.pc = "store_highest"
    /\ f.block_number > 0
    /\ ~(f.initial_sync /\ f.synced = INITIAL_SYNC_BLOCKS)

\* C14 as claimed: when the stored predecessor is present and matches, the walk
\* stops if the head pointer was unset at the start of the pass or the
\* predecessor's number is at most the head pointer (so the walk never goes on
\* in such a case).
C14_StopsAtMatchingPredecessor ==
    \A f \in ImportFutures :
        WalkContinued(f) =>
            ~(/\ PredMatches(f, f.block_number)
              /\ \/ f.highest_block_number = None
                 \/ f.block_number <= f.highest_block_number[1])

\* C14 amended: with a matching stored predecessor the walk stops exactly when
\* the head pointer was set at the start of the pass and the predecessor's
\* number is at most the head pointer; with no head pointer the walk never
\* stops at a stored predecessor.
C14_StopsOnlyWithHeadPointer ==
    \A f \in ImportFutures :
        /\ WalkContinued(f) =>
             ~(/\ PredMatches(f, f.block_number)
               /\ f.highest_block_number # None
               /\ f.block_number <= f.highest_block_number[1])
        /\ WalkStopped(f) =>
             /\ PredMatches(f, f.block_number - 1)
             /\ f.highest_block_number # None
             /\ f.block_number - 1 <= f.highest_block_number[1]

\* a pass on a chain with no head pointer goes on past a matching stored
\* predecessor
C14_Witness ==
    \E f \in ImportFutures :
        /\ WalkContinued(f)
        /\ f.highest_block_number = None
        /\ PredMatches(f, f.block_number)

\* the block numbers a first import of a chain with remote head `head` stores
SyncRange(head) ==
    (IF head - (INITIAL_SYNC_BLOCKS - 1) > 0 THEN head - (INITIAL_SYNC_BLOCKS - 1)
     ELSE 0) .. head

\* C15: a pass on a chain with no head pointer stores at most 100 blocks,
\* whatever the remote head and the store; once the 100th block is stored the
\* walk is over; the pass then still writes the head pointer (the remote head)
\* and succeeds; refetches of an absent block do not count: a successful pass
\* has stored each of the top 100 block numbers (or all down to genesis) once.
C15_InitialSyncCap ==
    \A f \in ImportFutures :
        f.initial_sync =>
            /\ Len(f.obs.stored) <= INITIAL_SYNC_BLOCKS
            /\ Len(f.obs.stored) = INITIAL_SYNC_BLOCKS
                 => f.pc \in {"store_highest", "rescan_delay", "done"}
            /\ Succeeded(f) =>
                 /\ db[ChainOf(f)].highest = Some(f.obs.remote0.head)
                 /\ Range(f.obs.stored) = SyncRange(f.obs.remote0.head)
                 /\ Len(f.obs.stored) = Cardinality(SyncRange(f.obs.remote0.head))

\* a first import over a store with blocks ended by the cap above genesis,
\* after the 100th block had been refetched
C15_Witness ==
    \E f \in ImportFutures :
        /\ f.initial_sync /\ f.pc = "rescan_delay"
        /\ f.delayed = "retry_delay"
        /\ Len(f.obs.stored) = INITIAL_SYNC_BLOCKS
        /\ f.block_number > 0
        /\ f.obs.db0.blocks # <<>>

\* C16: within one pass the block numbers fetched and stored start at the
\* remote head and go down by exactly one per step, so the numbers a completed
\* pass stored are an interval [b, H_remote], each stored once.
C16_DescendingByOne ==
    \A f \in ImportFutures :
        /\ \A i \in DOMAIN f.obs.stored :
             f.obs.stored[i] = f.obs.remote0.head - (i - 1)
        /\ f.pc = "store_block" =>
             f.block[1].block_number = f.obs.remote0.head - Len(f.obs.stored)
        /\ Walked(f) =>
             /\ Range(f.obs.stored)
                  = (f.obs.remote0.head - Len(f.obs.stored) + 1)..f.obs.remote0.head
             /\ Cardinality(Range(f.obs.stored)) = Len(f.obs.stored)

\* a completed pass that walked three blocks while the remote chain changed
C16_Witness ==
    \E f \in ImportFutures :
        Walked(f) /\ Len(f.obs.stored) = 3 /\ ~Static(f)

\* the pass of f is fetching a block or waiting to fetch it again
Fetching(f) == IsImport(f) /\ f.pc \in {"get_block", "retry_delay"}

\* C17: while a pass is fetching a block, an absent answer neither fails the
\* pass nor moves it on: every step leaves block_number, the blocks stored
\* and the store as they are and keeps the pass fetching (waiting the retry
\* delay, then asking again, any number of times) until the block of that very
\* number is returned; only a failed call ends the pass.
C17_AbsentBlockRetried ==
    [][\A f \in Futures :
         Fetching(f) =>
            \E g \in Futures' :
               /\ g.job = f.job
               /\ g.block_number = f.block_number
               /\ g.obs.stored = f.obs.stored
               /\ db'[ChainOf(f)] = db[ChainOf(f)]
               /\ \/ Fetching(g)
                  \/ g.pc = "store_block" /\ g.block[1].block_number = f.block_number
                  \/ Aborted(g) /\ failures'[ChainOf(f)] = failures[ChainOf(f)] + 1]_vars

\* in the middle of a walk a block was absent, was asked for again after the
\* retry delay and was then returned
C17_Witness ==
    \E f \in ImportFutures :
        /\ f.pc = "store_block" /\ f.delayed = "retry_delay"
        /\ f.obs.stored # <<>>
        /\ f.block[1].block_number = f.block_number

\* C18: on a chain with a head pointer, a pass does not stop at stored blocks
\* above the head pointer (leftovers of an aborted pass), matching or not:
\* when the walk is over, every block number from the old head pointer + 1 to
\* the remote head has been fetched and stored again, before the head pointer
\* is written.
C18_LeftoversOverwritten ==
    \A f \in ImportFutures :
        (/\ f.pc \in {"store_highest", "rescan_delay", "done"}
         /\ f.r # "Err"
         /\ f.obs.stored # <<>>
         /\ f.highest_block_number # None)
            => /\ (f.highest_block_number[1] + 1)..f.obs.remote0.head
                     \subseteq Range(f.obs.stored)
               /\ f.pc = "store_highest"
                    => db[ChainOf(f)].highest = f.highest_block_number

\* after a failure, a pass began over a store holding a block above the head
\* pointer that matches the remote chain, went past it and completed
C18_Witness ==
    \E f \in ImportFutures :
        /\ Walked(f) /\ Static(f)
        /\ failures[ChainOf(f)] > 0
        /\ f.obs.db0.highest # None
        /\ LET n == f.obs.db0.highest[1] + 1 IN
             /\ n < f.obs.remote0.head
             /\ n \in DOMAIN f.obs.db0.blocks
             /\ f.obs.db0.blocks[n] = RemoteBlock(ChainOf(f), f.obs.remote0, n)

\* the number of Import jobs of a chain in flight: running, delaying, or done
\* and not yet taken by the loop of run
InFlight(chain) ==
    LET S == {f \in Futures : IsImport(f) /\ ChainOf(f) = chain}
        count[T \in SUBSET S] ==
            IF T = {} THEN 0
            ELSE LET f == CHOOSE f \in T : TRUE
                 IN  CopiesIn(f, jobs) + count[T \ {f}]
    IN  count[S]

\* C19: at every moment at most one Import job of a chain is in flight, and
\* every Import job that ends, by success or by failure, yields exactly one job:
\* an Import of its own chain.
C19_OneImportPerChain ==
    /\ \A chain \in Chains : InFlight(chain) <= 1
    /\ \A f \in ImportFutures : f.pc = "done" => f.new_jobs = <<f.job>>

\* on one chain a pass failed and a pass succeeded, and a follow-up job of that
\* chain is in flight, while the jobs of the other chains are in flight too
C19_Witness ==
    /\ \A chain \in Chains : InFlight(chain) = 1
    /\ \E f \in ImportFutures :
         /\ f.pc = "begin"
         /\ failures[ChainOf(f)] > 0
         /\ db[ChainOf(f)].highest # None

\* C20: in every state and for every chain, a head pointer H means that a block
\* with block_number H is stored for that chain.
C20_HeadPointerBlockStored ==
    \A chain \in Chains :
        db[chain].highest # None
            => /\ db[chain].highest[1] \in DOMAIN db[chain].blocks
               /\ db[chain].blocks[db[chain].highest[1]].block_number
                    = db[chain].highest[1]

\* a pass over an empty store wrote the head pointer after the remote head had
\* moved below the head it read
C20_Witness ==
    \E f \in ImportFutures :
        /\ Walked(f)
        /\ f.obs.db0 = EmptyDb
        /\ remote[ChainOf(f)].head < f.obs.remote0.head
        /\ db[ChainOf(f)].highest = Some(f.obs.remote0.head)

====
